---- MODULE Spec2Model ----
(***************************************************************************)
(* Model of qr_generator.py: the ARSurgeryQRGenerator class, main() and    *)
(* the interactive __main__ block.  One behaviour is one run of the        *)
(* program (command line, interactive menu, or a direct call of            *)
(* generate_for_deployment on a freshly constructed generator).            *)
(* Library calls (qrcode, numpy, cv2, PIL, matplotlib) may raise at any    *)
(* point; that is a nondeterministic choice of the environment.            *)
(***************************************************************************)
EXTENDS Integers, Sequences, FiniteSets, TLC

VARIABLES mode, argType, argUrl, choiceLine, urlLine, urls, pc, depType,
          customUrl, url, filename, encodeReq, enhanced_qr, url_display, i,
          drawn, files, writeAttempts, qr_display, qr_filename, result,
          raised, printed, exitStatus, attempted

vars == <<mode, argType, argUrl, choiceLine, urlLine, urls, pc, depType,
          customUrl, url, filename, encodeReq, enhanced_qr, url_display, i,
          drawn, files, writeAttempts, qr_display, qr_filename, result,
          raised, printed, exitStatus, attempted>>

(***************************************************************************)
(* Python values.  An optional value is a sequence of length 0 (None) or   *)
(* 1 (the value); strings are TLA+ strings.                                *)
(***************************************************************************)
None == <<>>

Some(x) == <<x>>

\* Bound: the longest URL drawn as an input.
MaxUrlLen == 53

\* A 64-character URL whose prefixes are the inputs of every length.
BaseUrl == "https://surgery-training.example.org/ar/demo/index.html?session1"

LongUrl(n) == SubSeq(BaseUrl, 1, n)

\* URLs supplied by the user: every prefix of BaseUrl (the empty string and
\* scheme-less fragments included), blank and padded strings, another scheme.
UrlInputs ==
    {LongUrl(n) : n \in 0..MaxUrlLen}
        \cup {" ", " https://a.io ", "ftp://a.io", "http://a.io"}

OptUrlInputs == {None} \cup {Some(u) : u \in UrlInputs}

\* Lines typed at the menu prompt.
ChoiceLines == {"1", "2", " 2", "3", "3 ", "9", ""}


(***************************************************************************)
(* Pure helpers.                                                           *)
(***************************************************************************)
\* Python truthiness of an optional string: "if args.url:", "and custom_url",
\* "if custom_url:", "if result:".  None and the empty string are falsy.
TruthyNotNone(opt) == opt # None

Truthy(opt) == opt # None /\ opt[1] # ""

RECURSIVE LStrip(_)
LStrip(s) ==
    IF Len(s) > 0 /\ SubSeq(s, 1, 1) = " "
    THEN LStrip(SubSeq(s, 2, Len(s)))
    ELSE s

RECURSIVE RStrip(_)
RStrip(s) ==
    IF Len(s) > 0 /\ SubSeq(s, Len(s), Len(s)) = " "
    THEN RStrip(SubSeq(s, 1, Len(s) - 1))
    ELSE s

\* str.strip() of the lines read by input().
Strip(s) == RStrip(LStrip(s))

\* self.urls as set by __init__.
DefaultUrls ==
    [t \in {"local", "vercel", "custom"} |->
        CASE t = "local" -> "http://localhost:3000"
          [] t = "vercel" -> "https://your-app-name.vercel.app"
          [] OTHER -> ""]

\* argparse choices of --type.
Choices == {"local", "vercel", "custom"}

\* Values a user may give to --type: the choices, and "batch", which the
\* parser does not know.
CliTypes == Choices \cup {"batch"}

\* Exit status of parser.parse_args() on an invalid choice.
ArgparseErrorStatus == 2

\* Deployment types a direct caller may pass (one is not a known type).
DirectTypes == Choices \cup {"staging"}

\* The if/elif chain of generate_for_deployment: the (url, filename) pair, or
\* None for the else branch.
ResolveTargetDefaults(u, t, cu) ==
    CASE t = "local" -> Some([url |-> DefaultUrls["local"], filename |-> "qr_local.png"])
      [] t = "vercel" -> Some([url |-> DefaultUrls["vercel"], filename |-> "qr_vercel.png"])
      [] t = "custom" /\ Truthy(cu) -> Some([url |-> cu[1], filename |-> "qr_custom.png"])
      [] OTHER -> None

ResolveTargetOneFile(u, t, cu) ==
    CASE t = "local" -> Some([url |-> u["local"], filename |-> "qr_vercel.png"])
      [] t = "vercel" -> Some([url |-> u["vercel"], filename |-> "qr_vercel.png"])
      [] t = "custom" /\ Truthy(cu) -> Some([url |-> cu[1], filename |-> "qr_vercel.png"])
      [] OTHER -> None

ResolveTarget(u, t, cu) ==
    CASE t = "local" -> Some([url |-> u["local"], filename |-> "qr_local.png"])
      [] t = "vercel" -> Some([url |-> u["vercel"], filename |-> "qr_vercel.png"])
      [] t = "custom" /\ Truthy(cu) -> Some([url |-> cu[1], filename |-> "qr_custom.png"])
      [] OTHER -> None

\* f"enhanced_{filename}"
EnhancedName(fn) == "enhanced_" \o fn

\* Layout numbers of create_enhanced_qr_display.
canvas_height == 900

y_start == 600

line_height == 22

\* Length above which the URL is shortened, and the marker appended.
DisplayLimit == 50

Ellipsis == "..."

\* url_display = url[:50] + "..." if len(url) > 50 else url
UrlDisplayOffByOne(u) ==
    IF Len(u) >= DisplayLimit
    THEN SubSeq(u, 1, DisplayLimit) \o Ellipsis
    ELSE u

UrlDisplay(u) ==
    IF Len(u) > DisplayLimit
    THEN SubSeq(u, 1, DisplayLimit) \o Ellipsis
    ELSE u

\* The instructions list.  Each entry keeps its leading glyph (named, as the
\* glyphs are pictographs) and the rest of its text; "" is a blank entry.
instructions ==
    << [glyph |-> "phone",    text |-> "MOBILE ACCESS INSTRUCTIONS:"],
       [glyph |-> "",         text |-> ""],
       [glyph |-> "1",        text |-> ". Open your phone camera or Google Lens"],
       [glyph |-> "2",        text |-> ". Point camera at this QR code"],
       [glyph |-> "3",        text |-> ". Tap the notification/link that appears"],
       [glyph |-> "4",        text |-> ". Click 'START SURGERY' button"],
       [glyph |-> "5",        text |-> ". Experience immersive AR surgery training!"],
       [glyph |-> "",         text |-> ""],
       [glyph |-> "hospital", text |-> "FEATURES INCLUDED:"],
       [glyph |-> "",         text |-> ""],
       [glyph |-> "bullet",   text |-> "Real-time surgery step progression"],
       [glyph |-> "bullet",   text |-> "Patient vitals monitoring simulation"],
       [glyph |-> "bullet",   text |-> "Surgical instrument identification"],
       [glyph |-> "bullet",   text |-> "Critical safety alerts and warnings"],
       [glyph |-> "bullet",   text |-> "Educational learning objectives"],
       [glyph |-> "bullet",   text |-> "Mobile-optimized AR interface"],
       [glyph |-> "",         text |-> ""],
       [glyph |-> "graduate", text |-> "Perfect for medical students & residents"],
       [glyph |-> "bolt",     text |-> "No app installation required"],
       [glyph |-> "globe",    text |-> "Works on all smartphones"] >>

\* instruction == ""
IsBlank(ins) == ins.glyph = "" /\ ins.text = ""

\* instruction.startswith(glyphs)
StartsWith(ins, glyphs) == ins.glyph \in glyphs

\* The style rule of the loop: heading, body or footer-highlight.
StyleOf(ins) ==
    IF StartsWith(ins, {"graduate", "bolt", "globe"}) THEN "footer"
    ELSE IF StartsWith(ins, {"phone", "hospital"}) THEN "heading"
    ELSE "body"

\* y_pos of the entry at 0-based list index k.
YPos(k) == y_start + (k * line_height)

\* if y_pos < canvas_height - 20
Fits(y) == y < canvas_height - 20


(***************************************************************************)
(* Exceptions.  Every failing library call raises a subclass of Exception. *)
(* HandlerOf names the innermost "except Exception" clause that encloses a *)
(* step: the one of create_enhanced_qr_display, of create_qr_code, or of   *)
(* display_qr_code.  A step outside every try block would propagate.       *)
(***************************************************************************)
HandlerOfDisplayUnguarded(step) ==
    CASE step \in {"composeBegin", "composeLine"} -> "compose"
      [] step \in {"encode", "saveRaw", "writeEnhanced"} -> "create"
      [] OTHER -> "propagate"

HandlerOf(step) ==
    CASE step \in {"composeBegin", "composeLine"} -> "compose"
      [] step \in {"encode", "saveRaw", "writeEnhanced"} -> "create"
      [] step = "display" -> "display"
      [] OTHER -> "propagate"

\* Exit status of the interpreter: 0 when the script runs off its end (the
\* code never calls sys.exit), 1 when an exception is uncaught.
ExitCode(uncaught) == IF uncaught THEN 1 ELSE 0

\* Control after a step raised: the handler prints its status line and
\* returns its failure value to its caller.
Unwind(step) ==
    LET h == HandlerOf(step) IN
    /\ pc' = CASE h = "compose" -> "saveRaw"
               [] h = "create" -> "afterCreate"
               [] h = "display" -> "instructions"
               [] OTHER -> "raised"
    /\ enhanced_qr' = IF h = "compose" THEN None ELSE enhanced_qr
    /\ qr_display' = IF h = "create" THEN None ELSE qr_display
    /\ qr_filename' = IF h = "create" THEN None ELSE qr_filename
    /\ raised' = (h = "propagate")
    /\ printed' = CASE h = "compose" -> printed \cup {"enhanced_display_error"}
                    [] h = "create" -> printed \cup {"generation_error"}
                    [] h = "display" -> printed \cup {"display_error"}
                    [] OTHER -> printed

(***************************************************************************)
(* Initial state: nothing has run; the generator is not yet constructed    *)
(* but its urls mapping is the one __init__ builds.                        *)
(***************************************************************************)
Init ==
    /\ mode = "none"
    /\ argType = ""
    /\ argUrl = None
    /\ choiceLine = ""
    /\ urlLine = ""
    /\ urls = DefaultUrls
    /\ pc = "start"
    /\ depType = ""
    /\ customUrl = None
    /\ url = ""
    /\ filename = ""
    /\ encodeReq = <<>>
    /\ enhanced_qr = None
    /\ url_display = ""
    /\ i = 0
    /\ drawn = {}
    /\ files = {}
    /\ writeAttempts = {}
    /\ qr_display = None
    /\ qr_filename = None
    /\ result = None
    /\ raised = FALSE
    /\ printed = {}
    /\ exitStatus = -1
    /\ attempted = {}

genLocals == <<url, filename, encodeReq, enhanced_qr, url_display, i, drawn,
               files, writeAttempts, qr_display, qr_filename, result, raised,
               attempted>>

inputs == <<mode, argType, argUrl, choiceLine, urlLine, urls, depType,
            customUrl>>

(***************************************************************************)
(* Entry points.                                                           *)
(***************************************************************************)
\* main(): parse --type t and --url ou, build the generator, apply the
\* override and call generate_for_deployment.
MainCli(t, ou) ==
    /\ pc = "start"
    /\ mode' = "cli"
    /\ argType' = t
    /\ argUrl' = ou
    /\ IF t \notin Choices
       THEN /\ printed' = printed \cup {"usage_error"}
            /\ pc' = "exit"
            /\ exitStatus' = ArgparseErrorStatus
            /\ UNCHANGED <<depType, customUrl, urls>>
       ELSE /\ IF Truthy(ou)
               THEN IF t = "custom"
                    THEN /\ depType' = "custom"
                         /\ customUrl' = ou
                         /\ urls' = urls
                    ELSE /\ urls' = [urls EXCEPT ![t] = ou[1]]
                         /\ depType' = t
                         /\ customUrl' = None
               ELSE /\ depType' = t
                    /\ customUrl' = None
                    /\ urls' = urls
            /\ printed' = printed \cup {"banner"}
            /\ pc' = "gen"
            /\ exitStatus' = exitStatus
    /\ UNCHANGED <<choiceLine, urlLine>>
    /\ UNCHANGED genLocals

\* The interactive block: cl is the line typed at the menu, ul the line
\* typed at the URL prompt (read for choices 2 and 3 only).
Interactive(cl, ul) ==
    LET choice == Strip(cl)
        custom_url == Strip(ul)
    IN
    /\ pc = "start"
    /\ choice \notin {"2", "3"} => ul = ""
    /\ mode' = "interactive"
    /\ choiceLine' = cl
    /\ urlLine' = ul
    /\ CASE choice = "1" ->
              /\ depType' = "local"
              /\ customUrl' = None
              /\ urls' = urls
              /\ pc' = "gen"
              /\ printed' = printed \cup {"menu"}
              /\ exitStatus' = exitStatus
         [] choice = "2" ->
              /\ urls' = IF Truthy(Some(custom_url))
                         THEN [urls EXCEPT !["vercel"] = custom_url]
                         ELSE urls
              /\ depType' = "vercel"
              /\ customUrl' = None
              /\ pc' = "gen"
              /\ printed' = printed \cup {"menu"}
              /\ exitStatus' = exitStatus
         [] choice = "3" ->
              IF Truthy(Some(custom_url))
              THEN /\ depType' = "custom"
                   /\ customUrl' = Some(custom_url)
                   /\ urls' = urls
                   /\ pc' = "gen"
                   /\ printed' = printed \cup {"menu"}
                   /\ exitStatus' = exitStatus
              ELSE /\ printed' = printed \cup {"menu", "custom_url_required"}
                   /\ pc' = "exit"
                   /\ exitStatus' = ExitCode(FALSE)
                   /\ UNCHANGED <<depType, customUrl, urls>>
         [] OTHER ->
              /\ printed' = printed \cup {"menu", "invalid_choice"}
              /\ pc' = "exit"
              /\ exitStatus' = ExitCode(FALSE)
              /\ UNCHANGED <<depType, customUrl, urls>>
    /\ UNCHANGED <<argType, argUrl>>
    /\ UNCHANGED genLocals

\* A caller constructs the generator and calls
\* generate_for_deployment(t, ocu) itself.
DirectCall(t, ocu) ==
    /\ pc = "start"
    /\ mode' = "direct"
    /\ depType' = t
    /\ customUrl' = ocu
    /\ pc' = "gen"
    /\ UNCHANGED <<argType, argUrl, choiceLine, urlLine, urls, printed,
                   exitStatus>>
    /\ UNCHANGED genLocals

(***************************************************************************)
(* generate_for_deployment and the calls it makes.                         *)
(***************************************************************************)
\* Entry of generate_for_deployment: the if/elif chain.
Resolve ==
    /\ pc = "gen"
    /\ attempted' = attempted \cup {depType}
    /\ LET r == ResolveTarget(urls, depType, customUrl) IN
       IF r = None
       THEN /\ printed' = printed \cup {"generating", "invalid_type_or_missing_url"}
            /\ result' = None
            /\ pc' = "ret"
            /\ UNCHANGED <<url, filename>>
       ELSE /\ printed' = printed \cup {"generating"}
            /\ url' = r[1].url
            /\ filename' = r[1].filename
            /\ pc' = "encode"
            /\ result' = result
    /\ UNCHANGED inputs
    /\ UNCHANGED <<encodeReq, enhanced_qr, url_display, i, drawn, files,
                   writeAttempts, qr_display, qr_filename, raised, exitStatus>>

\* create_qr_code up to the call of create_enhanced_qr_display: the payload
\* is handed to the encoder (qr.add_data(url)) and the image is made.
Encode ==
    /\ pc = "encode"
    /\ encodeReq' = Append(encodeReq, url)
    /\ printed' = printed \cup {"generating_qr"}
    /\ pc' = "composeBegin"
    /\ UNCHANGED inputs
    /\ UNCHANGED <<url, filename, enhanced_qr, url_display, i, drawn, files,
                   writeAttempts, qr_display, qr_filename, result, raised,
                   exitStatus, attempted>>

\* The encoder raises (for instance the payload is too large), after or
\* before the payload was handed over.
EncodeFails ==
    /\ pc = "encode"
    /\ \E handed \in BOOLEAN :
          encodeReq' = IF handed THEN Append(encodeReq, url) ELSE encodeReq
    /\ Unwind("encode")
    /\ UNCHANGED inputs
    /\ UNCHANGED <<url, filename, url_display, i, drawn, files,
                   writeAttempts, result, exitStatus, attempted>>

\* create_enhanced_qr_display before the loop: canvas, title, URL line.
ComposeBegin ==
    /\ pc = "composeBegin"
    /\ url_display' = UrlDisplay(url)
    /\ i' = 0
    /\ drawn' = {}
    /\ pc' = "composeLine"
    /\ UNCHANGED inputs
    /\ UNCHANGED <<url, filename, encodeReq, enhanced_qr, files,
                   writeAttempts, qr_display, qr_filename, result, raised,
                   printed, exitStatus, attempted>>

\* One iteration of the instruction loop, for the entry at list index i.
ComposeLine ==
    /\ pc = "composeLine"
    /\ i < Len(instructions)
    /\ LET ins == instructions[i + 1]
           y_pos == YPos(i)
       IN drawn' = IF ~IsBlank(ins) /\ Fits(y_pos)
                   THEN drawn \cup {[index |-> i, y |-> y_pos, style |-> StyleOf(ins)]}
                   ELSE drawn
    /\ i' = i + 1
    /\ UNCHANGED inputs
    /\ UNCHANGED <<pc, url, filename, encodeReq, enhanced_qr, url_display,
                   files, writeAttempts, qr_display, qr_filename, result,
                   raised, printed, exitStatus, attempted>>

\* After the loop: borders, timestamp, return canvas.
ComposeEnd ==
    /\ pc = "composeLine"
    /\ i = Len(instructions)
    /\ enhanced_qr' = Some([url_display |-> url_display, lines |-> drawn])
    /\ url_display' = ""
    /\ i' = 0
    /\ drawn' = {}
    /\ pc' = "saveRaw"
    /\ UNCHANGED inputs
    /\ UNCHANGED <<url, filename, encodeReq, files, writeAttempts,
                   qr_display, qr_filename, result, raised, printed,
                   exitStatus, attempted>>

\* A drawing call of create_enhanced_qr_display raises.
ComposeFails ==
    /\ pc \in {"composeBegin", "composeLine"}
    /\ Unwind(pc)
    /\ url_display' = ""
    /\ i' = 0
    /\ drawn' = {}
    /\ UNCHANGED inputs
    /\ UNCHANGED <<url, filename, encodeReq, files, writeAttempts, result,
                   exitStatus, attempted>>

\* qr_img.save(filename)
SaveRaw ==
    /\ pc = "saveRaw"
    /\ writeAttempts' = writeAttempts \cup {[file |-> filename, data |-> "qr_img"]}
    /\ files' = files \cup {filename}
    /\ pc' = "writeEnhanced"
    /\ UNCHANGED inputs
    /\ UNCHANGED <<url, filename, encodeReq, enhanced_qr, url_display, i,
                   drawn, qr_display, qr_filename, result, raised, printed,
                   exitStatus, attempted>>

\* qr_img.save(filename) raises (the file cannot be written).
SaveRawFails ==
    /\ pc = "saveRaw"
    /\ writeAttempts' = writeAttempts \cup {[file |-> filename, data |-> "qr_img"]}
    /\ Unwind("saveRaw")
    /\ UNCHANGED inputs
    /\ UNCHANGED <<url, filename, encodeReq, url_display, i, drawn, files,
                   result, exitStatus, attempted>>

\* cv2.imwrite(f"enhanced_{filename}", enhanced_qr) with a canvas: it writes
\* the file, or reports failure by returning False (the value is ignored);
\* then the success line and "return enhanced_qr, filename".
WriteEnhanced ==
    /\ pc = "writeEnhanced"
    /\ enhanced_qr # None
    /\ writeAttempts' =
          writeAttempts \cup {[file |-> EnhancedName(filename), data |-> "canvas"]}
    /\ \E ok \in BOOLEAN :
          files' = IF ok THEN files \cup {EnhancedName(filename)} ELSE files
    /\ printed' = printed \cup {"saved"}
    /\ qr_display' = enhanced_qr
    /\ qr_filename' = Some(filename)
    /\ pc' = "afterCreate"
    /\ UNCHANGED inputs
    /\ UNCHANGED <<url, filename, encodeReq, enhanced_qr, url_display, i,
                   drawn, result, raised, exitStatus, attempted>>

\* cv2.imwrite raises: always when enhanced_qr is None (an empty image is
\* rejected), possibly when it is a canvas.
WriteEnhancedFails ==
    /\ pc = "writeEnhanced"
    /\ writeAttempts' =
          writeAttempts \cup
             {[file |-> EnhancedName(filename),
               data |-> IF enhanced_qr = None THEN "None" ELSE "canvas"]}
    /\ Unwind("writeEnhanced")
    /\ UNCHANGED inputs
    /\ UNCHANGED <<url, filename, encodeReq, url_display, i, drawn, files,
                   result, exitStatus, attempted>>

\* Back in generate_for_deployment: "if qr_display is not None".
AfterCreate ==
    /\ pc = "afterCreate"
    /\ IF qr_display # None
       THEN /\ pc' = "display"
            /\ result' = result
       ELSE /\ pc' = "ret"
            /\ result' = None
    /\ UNCHANGED inputs
    /\ UNCHANGED <<url, filename, encodeReq, enhanced_qr, url_display, i,
                   drawn, files, writeAttempts, qr_display, qr_filename,
                   raised, printed, exitStatus, attempted>>

\* display_qr_code runs to its end.
Display ==
    /\ pc = "display"
    /\ printed' = IF qr_display = None
                  THEN printed \cup {"no_qr_to_display"}
                  ELSE printed \cup {"generated_successfully"}
    /\ pc' = "instructions"
    /\ UNCHANGED inputs
    /\ UNCHANGED <<url, filename, encodeReq, enhanced_qr, url_display, i,
                   drawn, files, writeAttempts, qr_display, qr_filename,
                   result, raised, exitStatus, attempted>>

\* A matplotlib call of display_qr_code raises.
DisplayFails ==
    /\ pc = "display"
    /\ qr_display # None
    /\ Unwind("display")
    /\ UNCHANGED inputs
    /\ UNCHANGED <<url, filename, encodeReq, url_display, i, drawn, files,
                   writeAttempts, result, exitStatus, attempted>>

\* The deployment instructions are printed and qr_filename is returned.
Instructions ==
    /\ pc = "instructions"
    /\ printed' = printed \cup {"deployment_instructions"}
    /\ result' = qr_filename
    /\ pc' = "ret"
    /\ UNCHANGED inputs
    /\ UNCHANGED <<url, filename, encodeReq, enhanced_qr, url_display, i,
                   drawn, files, writeAttempts, qr_display, qr_filename,
                   raised, exitStatus, attempted>>

\* The end of main() ("if result:") or of the interactive block, and the
\* end of the process.
Finish ==
    /\ pc \in {"ret", "raised"}
    /\ mode \in {"cli", "interactive"}
    /\ printed' = IF mode = "cli" /\ ~raised
                  THEN printed \cup {IF Truthy(result) THEN "success" ELSE "failed"}
                  ELSE printed
    /\ exitStatus' = ExitCode(raised)
    /\ pc' = "exit"
    /\ UNCHANGED inputs
    /\ UNCHANGED genLocals

Next ==
    \/ \E t \in CliTypes, ou \in OptUrlInputs : MainCli(t, ou)
    \/ \E cl \in ChoiceLines, ul \in UrlInputs : Interactive(cl, ul)
    \/ \E t \in DirectTypes, ocu \in OptUrlInputs : DirectCall(t, ocu)
    \/ Resolve
    \/ Encode
    \/ EncodeFails
    \/ ComposeBegin
    \/ ComposeLine
    \/ ComposeEnd
    \/ ComposeFails
    \/ SaveRaw
    \/ SaveRawFails
    \/ WriteEnhanced
    \/ WriteEnhancedFails
    \/ AfterCreate
    \/ Display
    \/ DisplayFails
    \/ Instructions
    \/ Finish

Spec == Init /\ [][Next]_vars


(***************************************************************************)
(* Properties.                                                             *)
(***************************************************************************)
\* The payloads handed to the encoder so far.
Payloads == {encodeReq[k] : k \in 1..Len(encodeReq)}

\* The override URL of the run, if one was supplied: --url on the command
\* line, the stripped line typed at the URL prompt, or the custom_url
\* argument of a direct call for 'custom'.
OverrideUrl ==
    CASE mode = "cli" -> argUrl
      [] mode = "interactive" /\ Strip(choiceLine) \in {"2", "3"} -> Some(Strip(urlLine))
      [] mode = "direct" /\ depType = "custom" -> customUrl
      [] OTHER -> None

\* qr_<t>.png
TargetFile(t) == "qr_" \o t \o ".png"

\* C1: a target whose URL is empty or absent is never generated: the urls
\* mapping never holds an empty URL for local or vercel, no empty payload is
\* ever handed to the encoder, and a 'custom' call without a (non-empty)
\* custom_url returns None with no encode request and no file written.
C1_EmptyUrlNeverGenerated ==
    /\ urls["local"] # ""
    /\ urls["vercel"] # ""
    /\ "" \notin Payloads
    /\ (depType = "custom" /\ ~(customUrl # None /\ customUrl[1] # "")
            /\ pc \notin {"start", "gen"})
          => /\ pc \in {"ret", "exit"}
             /\ result = None
             /\ encodeReq = <<>>
             /\ files = {}
             /\ writeAttempts = {}

C1_Witness ==
    /\ pc = "ret"
    /\ mode = "direct"
    /\ depType = "custom"
    /\ customUrl = Some("")
    /\ result = None
    /\ "invalid_type_or_missing_url" \in printed

\* The validate predicate of the specification: the trimmed string is
\* non-empty and begins with http:// or https://.
HasPrefix(s, p) == Len(s) >= Len(p) /\ SubSeq(s, 1, Len(p)) = p

IsValidUrl(u) ==
    LET t == Strip(u) IN
    t # "" /\ (HasPrefix(t, "http://") \/ HasPrefix(t, "https://"))

\* C2: the URL is validated before encoding: a URL that is, after trimming,
\* empty or without an http:// or https:// prefix is never handed to the
\* encoder and no file is written for it.
C2_InvalidUrlNeverEncoded ==
    /\ \A u \in Payloads : IsValidUrl(u)
    /\ (pc \notin {"start", "gen"} /\ attempted \subseteq Choices
            /\ url # "" /\ ~IsValidUrl(url))
          => files = {}

\* C3: a single-target command-line run exits with status zero only when
\* generation succeeded, and non-zero when generate_for_deployment
\* returned None.
C3_FailureExitsNonZero ==
    (pc = "exit" /\ mode = "cli" /\ argType \in Choices)
        => (exitStatus = 0 <=> (result # None /\ result[1] # ""))

C5_NoWriteAfterNullComposition ==
    \A w \in writeAttempts :
        w.file = EnhancedName(filename) => w.data # "None"

StatusLines ==
    {"generating", "invalid_type_or_missing_url", "generating_qr",
     "enhanced_display_error", "generation_error", "display_error", "saved",
     "generated_successfully", "deployment_instructions"}

\* C7: no error raised inside a generation request leaves
\* generate_for_deployment: whichever step fails, the call returns None or
\* the filename, after printing a status line.
C7_NoErrorEscapes ==
    /\ ~raised
    /\ pc # "raised"
    /\ exitStatus # ExitCode(TRUE)
    /\ pc = "ret"
          => /\ result \in {None, Some(filename)}
             /\ printed \cap StatusLines # {}

C7_Witness ==
    /\ pc = "ret"
    /\ "display_error" \in printed
    /\ result = Some(filename)
    /\ filename = "qr_vercel.png"

\* The URL display string held by the composition (while it runs) or by the
\* canvas it returned.
ShownUrl ==
    CASE pc = "composeLine" -> Some(url_display)
      [] enhanced_qr # None -> Some(enhanced_qr[1].url_display)
      [] OTHER -> None

\* C8: the URL display string equals the URL when the URL has at most 50
\* characters, and is its first 50 characters followed by the truncation
\* marker (53 characters in all) when it has more.
C8_UrlDisplayTruncation ==
    ShownUrl # None
        => LET d == ShownUrl[1] IN
           /\ Len(url) <= 50 => d = url
           /\ Len(url) > 50
                 => /\ Len(d) = 53
                    /\ SubSeq(d, 1, 50) = SubSeq(url, 1, 50)
                    /\ SubSeq(d, 51, 53) = "..."

C8_Witness ==
    /\ pc = "composeLine"
    /\ Len(url) = 51
    /\ Len(url_display) = 53
    /\ url_display # url

\* C9: the entry at index k is placed at y_start + k*line_height, drawn only
\* below canvas_height - 20, nothing is drawn after a suppressed non-blank
\* line, and when the loop ends every non-blank line of the list (the three
\* footer lines included) has been drawn.
C9_EveryLineDrawn ==
    /\ \A d \in drawn : d.y = 600 + (d.index * 22) /\ d.y < 900 - 20
    /\ \A d \in drawn : \A k \in 0..(d.index - 1) :
          IsBlank(instructions[k + 1]) \/ (\E e \in drawn : e.index = k)
    /\ (pc = "composeLine" /\ i = Len(instructions))
          => \A k \in 0..(Len(instructions) - 1) :
                ~IsBlank(instructions[k + 1]) => \E d \in drawn : d.index = k

\* C10: the value returned by generate_for_deployment agrees with the disk:
\* None means neither file was written, a filename means both the raw and
\* the enhanced file were written.
C10_ResultMatchesDisk ==
    pc = "ret"
        => /\ result = None => files = {}
           /\ result # None
                 => {result[1], EnhancedName(result[1])} \subseteq files

====
